---- MODULE Spec2Model ----
(***************************************************************************)
(* setup_hla_database.py: download_hla_fasta streams a FASTA payload into  *)
(* a cache directory and records its path in config.json; load_hla_path    *)
(* reads that record back.  The model keeps the cache directory's two      *)
(* files, the local variables of each running download_hla_fasta, and the  *)
(* result of the last load_hla_path.                                       *)
(*                                                                         *)
(* Sizes are scaled: the payload is PayloadLen bytes, byte i having the    *)
(* value i, and a streamed chunk holds at most MaxChunk bytes (the code's  *)
(* chunk_size is 1 MiB).  A byte 0 in the file is a hole left by a write   *)
(* past the end of a truncated file.  On POSIX an unlinked file stays      *)
(* writable through the handles already open on it; on Windows the unlink  *)
(* of a file another process holds open is refused.                        *)
(***************************************************************************)
EXTENDS Integers, Sequences, FiniteSets, TLC

VARIABLES platform, fs, proc, loaded, lastOp

vars == <<platform, fs, proc, loaded, lastOp>>

\* ---- bounds of the model ------------------------------------------------
PayloadLen == 3
MaxChunk == 2

\* ---- program constants --------------------------------------------------
MiB == 1048576

Procs == {1, 2}
SeqProcs == {1}

\* ---- Python values --------------------------------------------------------
None == <<>>
Some(x) == <<x>>

PyNull == [ty |-> "null", str |-> <<>>, num |-> 0, den |-> 1]
PyStr(parts) == [ty |-> "str", str |-> parts, num |-> 0, den |-> 1]
PyFloat(n, d) == [ty |-> "float", str |-> <<>>, num |-> n, den |-> d]

\* str(path) and Path(s): a path is the sequence of its parts
StrOfPath(path) == PyStr(path)
PathOfStr(v) == v.str

\* a / b for an int a and a power of two b: exact in binary floating point
FloatDiv(a, b) == PyFloat(a, b)
FloatEq(x, y) == x.ty = "float" /\ y.ty = "float" /\ x.num * y.den = y.num * x.den

URL == PyStr(<<"https://ftp.ebi.ac.uk/pub/databases/ipd/imgt/hla/hla_prot.fasta">>)

\* ---- get_cache_dir ------------------------------------------------------
Platforms == {"win32", "linux"}

get_cache_dir(plat) ==
    IF plat = "win32" THEN <<"~", "AppData", "Local", "hai_def_cache">>
    ELSE <<"~", ".cache", "hai_def">>

fasta_file(cache_dir) == Append(cache_dir, "hla_prot.fasta")
config_file(cache_dir) == Append(cache_dir, "config.json")

\* ---- the payload served at the URL --------------------------------------
Payload == [i \in 1..PayloadLen |-> i]

\* the next chunk of n bytes after `done` bytes were received
ChunkAt(done, n) == [i \in 1..n |-> Payload[done + i]]

\* ---- files ----------------------------------------------------------------
NoFile == [exists |-> FALSE, data |-> <<>>]
File(d) == [exists |-> TRUE, data |-> d]

Max(a, b) == IF a >= b THEN a ELSE b

\* write(chunk) through a handle whose offset is off
WriteAt(data, off, chunk) ==
    [i \in 1..Max(Len(data), off + Len(chunk)) |->
        IF i > off /\ i <= off + Len(chunk) THEN chunk[i - off]
        ELSE IF i <= Len(data) THEN data[i]
        ELSE 0]

\* ---- json.dump / json.load ------------------------------------------------
LBrace == [t |-> "{", k |-> "", v |-> PyNull]
RBrace == [t |-> "}", k |-> "", v |-> PyNull]
Key(name) == [t |-> "key", k |-> name, v |-> PyNull]
Val(x) == [t |-> "val", k |-> "", v |-> x]

\* json.dump(config, f, indent=2) of the dict built at lines 67-71
json_dump(config) ==
    << LBrace,
       Key("hla_fasta_path"), Val(config.hla_fasta_path),
       Key("download_url"), Val(config.download_url),
       Key("file_size_mb"), Val(config.file_size_mb),
       RBrace >>

\* whether json.load accepts the text as an object
json_ok(text) ==
    /\ Len(text) >= 2
    /\ text[1] = LBrace
    /\ text[Len(text)] = RBrace
    /\ (Len(text) - 2) % 2 = 0
    /\ \A i \in 2..(Len(text) - 1) :
          IF i % 2 = 0 THEN text[i].t = "key" ELSE text[i].t = "val"

json_keys(text) == {text[i].k : i \in {j \in 2..(Len(text) - 1) : j % 2 = 0}}

\* the dict json.load returns (a repeated key keeps its last value)
json_load(text) ==
    [name \in json_keys(text) |->
        LET last == CHOOSE i \in 2..(Len(text) - 1) :
                       /\ i % 2 = 0
                       /\ text[i].k = name
                       /\ \A j \in (i + 1)..(Len(text) - 1) :
                             ~(j % 2 = 0 /\ text[j].k = name)
        IN text[last + 1].v]

\* ---- load_hla_path -------------------------------------------------------
\* `except Exception` (line 97) catches whatever the try body raises
load_catches_json_only(exc) == exc = "JSONDecodeError"

load_catches(exc) == exc \in {"JSONDecodeError", "KeyError", "TypeError"}

\* lines 94-96: the value returned, or the exception raised
load_try(text) ==
    IF ~json_ok(text) THEN [raised |-> "JSONDecodeError", value |-> None]
    ELSE IF "hla_fasta_path" \notin DOMAIN json_load(text)
         THEN [raised |-> "KeyError", value |-> None]
    ELSE IF json_load(text)["hla_fasta_path"].ty # "str"
         THEN [raised |-> "TypeError", value |-> None]
    ELSE [raised |-> "", value |-> Some(PathOfStr(json_load(text)["hla_fasta_path"]))]

path_exists_never(file) == FALSE

\* Path.exists()
path_exists(file) == file.exists

\* what load_hla_path returns and prints; fault: an exception left the function
load_result(f) ==
    IF ~path_exists(f.config)
    THEN [ret |-> None, msg |-> "not set up", fault |-> FALSE]
    ELSE LET r == load_try(f.config.data)
         IN IF r.raised = "" THEN [ret |-> r.value, msg |-> "", fault |-> FALSE]
            ELSE IF load_catches(r.raised)
                 THEN [ret |-> None, msg |-> "error loading config", fault |-> FALSE]
            ELSE [ret |-> None, msg |-> "", fault |-> TRUE]

\* load_hla_path on the directory get_cache_dir() names: its result and the
\* file system it leaves
load_hla_path_mkdir(f, plat) == [res |-> load_result(f), fs |-> [f EXCEPT !.dir = TRUE]]

load_hla_path(f, plat) == [res |-> load_result(f), fs |-> f]

\* ---- download_hla_fasta: helpers ----------------------------------------
\* cache_dir.mkdir(parents=True, exist_ok=True)
mkdir(f) == [f EXCEPT !.dir = TRUE]

\* int(response.headers.get('content-length', 0))
header_int(header) == IF header = None THEN 0 ELSE header[1]

Headers == {None, Some(PayloadLen)}

shows_progress_never(total_size) == FALSE

\* the guard of the progress print (line 54)
shows_progress(total_size) == total_size > 0

\* the numbers of the progress line: percent (in tenths), bytes, total
progress_line(downloaded, total_size) ==
    [pct10 |-> (2000 * downloaded + total_size) \div (2 * total_size),
     downloaded |-> downloaded, total |-> total_size]

stat_size_mb_decimal(file) == FloatDiv(Len(file.data), 1000000)

\* fasta_file.stat().st_size / (1024 * 1024)
stat_size_mb(file) == FloatDiv(Len(file.data), MiB)

\* the dict of lines 67-71
config_dict(cache_dir, size_mb) ==
    [hla_fasta_path |-> StrOfPath(fasta_file(cache_dir)),
     download_url |-> URL,
     file_size_mb |-> size_mb]

except_cleanup_keep(file) == file

\* lines 80-81: if fasta_file.exists(): fasta_file.unlink()
except_cleanup(file) == IF path_exists(file) THEN NoFile ELSE file

Prefix(s, k) == [i \in 1..k |-> s[i]]

\* ---- state ----------------------------------------------------------------
InitFs == [dir |-> FALSE, fasta |-> NoFile, config |-> NoFile]

InitProc ==
    [pc |-> "idle", fd |-> "closed", downloaded |-> 0, total_size |-> 0,
     header |-> None, chunk |-> <<>>, file_size_mb |-> PyNull, outcome |-> "none", ret |-> None,
     requests |-> 0, progress |-> <<>>, nchunks |-> 0, fs0 |-> InitFs]

Op(name, p) == [op |-> name, p |-> p]

Init ==
    /\ platform \in Platforms
    /\ fs = InitFs
    /\ proc = [p \in Procs |-> InitProc]
    /\ loaded = [ret |-> None, msg |-> "", fault |-> FALSE]
    /\ lastOp = Op("init", 0)

cache_dir == get_cache_dir(platform)

\* the exit of a process: a later run of the script starts from "idle"
Exit(r, how) == [r EXCEPT !.pc = "idle", !.fd = "closed", !.outcome = how]

\* ---- download_hla_fasta: steps ------------------------------------------
\* lines 26-39: mkdir, the file-exists check, the short-circuit return
Call(p) ==
    /\ proc[p].pc = "idle"
    /\ fs' = mkdir(fs)
    /\ IF path_exists(fs.fasta)
       THEN /\ proc' = [proc EXCEPT ![p] =
                   [InitProc EXCEPT !.outcome = "returned",
                                    !.ret = Some(fasta_file(cache_dir)),
                                    !.fs0 = fs]]
            /\ lastOp' = Op("cached", p)
       ELSE /\ proc' = [proc EXCEPT ![p] =
                   [InitProc EXCEPT !.pc = "request", !.fs0 = fs]]
            /\ lastOp' = Op("call", p)
    /\ UNCHANGED <<platform, loaded>>

\* lines 42-47: the request succeeds, with or without a content-length header
RequestOk(p) ==
    /\ proc[p].pc = "request"
    /\ \E header \in Headers :
          proc' = [proc EXCEPT ![p].pc = "open",
                               ![p].requests = @ + 1,
                               ![p].header = header,
                               ![p].total_size = header_int(header),
                               ![p].downloaded = 0]
    /\ lastOp' = Op("request", p)
    /\ UNCHANGED <<platform, fs, loaded>>

\* lines 42-43: requests.get or raise_for_status raises a RequestException
RequestFail(p) ==
    /\ proc[p].pc = "request"
    /\ proc' = [proc EXCEPT ![p].pc = "except", ![p].requests = @ + 1]
    /\ lastOp' = Op("requestfail", p)
    /\ UNCHANGED <<platform, fs, loaded>>

\* line 49: open(fasta_file, 'wb') creates the file or truncates it
Open(p) ==
    /\ proc[p].pc = "open"
    /\ fs' = [fs EXCEPT !.fasta = File(<<>>)]
    /\ proc' = [proc EXCEPT ![p].pc = "stream", ![p].fd = "open"]
    /\ lastOp' = Op("open", p)
    /\ UNCHANGED <<platform, loaded>>

\* lines 50-58: one iteration of the loop over iter_content
StreamChunk(p) ==
    /\ proc[p].pc = "stream"
    /\ proc[p].downloaded < PayloadLen
    /\ \E n \in 0..MaxChunk :
          /\ proc[p].downloaded + n <= PayloadLen
          /\ LET r == proc[p]
                 chunk == ChunkAt(r.downloaded, n)
                 downloaded == r.downloaded + n
             IN IF chunk # <<>>
                THEN /\ fs' = IF r.fd = "open"
                              THEN [fs EXCEPT !.fasta.data =
                                       WriteAt(@, r.downloaded, chunk)]
                              ELSE fs
                     /\ proc' = [proc EXCEPT ![p] =
                           [r EXCEPT !.chunk = chunk,
                                     !.downloaded = downloaded,
                                     !.nchunks = @ + 1,
                                     !.progress =
                                        IF shows_progress(r.total_size)
                                        THEN Append(@, progress_line(downloaded,
                                                                     r.total_size))
                                        ELSE @]]
                ELSE /\ fs' = fs
                     /\ proc' = [proc EXCEPT ![p].chunk = chunk]
    /\ lastOp' = Op("chunk", p)
    /\ UNCHANGED <<platform, loaded>>

\* the body is exhausted: the with block closes the file
StreamEnd(p) ==
    /\ proc[p].pc = "stream"
    /\ proc[p].downloaded = PayloadLen
    /\ proc' = [proc EXCEPT ![p].pc = "stat", ![p].fd = "closed"]
    /\ lastOp' = Op("streamend", p)
    /\ UNCHANGED <<platform, fs, loaded>>

\* iter_content raises a RequestException: the with block closes the file
StreamFail(p) ==
    /\ proc[p].pc = "stream"
    /\ proc' = [proc EXCEPT ![p].pc = "except", ![p].fd = "closed"]
    /\ lastOp' = Op("streamfail", p)
    /\ UNCHANGED <<platform, fs, loaded>>

\* lines 60-64: stat of the target; a missing target raises FileNotFoundError,
\* which no handler catches
Stat(p) ==
    /\ proc[p].pc = "stat"
    /\ IF fs.fasta.exists
       THEN proc' = [proc EXCEPT ![p].pc = "save",
                                 ![p].file_size_mb = stat_size_mb(fs.fasta)]
       ELSE proc' = [proc EXCEPT ![p] = Exit(@, "crashed")]
    /\ lastOp' = Op("stat", p)
    /\ UNCHANGED <<platform, fs, loaded>>

\* line 72: open(config_file, 'w') creates the file or truncates it
SaveOpen(p) ==
    /\ proc[p].pc = "save"
    /\ fs' = [fs EXCEPT !.config = File(<<>>)]
    /\ proc' = [proc EXCEPT ![p].pc = "dump"]
    /\ lastOp' = Op("saveopen", p)
    /\ UNCHANGED <<platform, loaded>>

\* lines 73-76: json.dump, close, return fasta_file
Dump(p) ==
    /\ proc[p].pc = "dump"
    /\ fs' = [fs EXCEPT !.config =
                File(json_dump(config_dict(cache_dir, proc[p].file_size_mb)))]
    /\ proc' = [proc EXCEPT ![p] =
                  [Exit(@, "returned") EXCEPT !.ret = Some(fasta_file(cache_dir))]]
    /\ lastOp' = Op("dump", p)
    /\ UNCHANGED <<platform, loaded>>

\* unlink: the handles open on the file keep it, detached from the directory
Orphaned(pr, p) ==
    [q \in Procs |->
        IF q # p /\ pr[q].fd = "open" THEN [pr[q] EXCEPT !.fd = "orphan"] ELSE pr[q]]

\* on Windows unlink raises PermissionError while another process holds the
\* file open; the handler does not catch it
UnlinkRefused(p) ==
    platform = "win32" /\ \E q \in Procs \ {p} : proc[q].fd = "open"

\* lines 78-82: the handler of RequestException
Except(p) ==
    /\ proc[p].pc = "except"
    /\ IF path_exists(fs.fasta) /\ UnlinkRefused(p)
       THEN /\ fs' = fs
            /\ proc' = [proc EXCEPT ![p] = Exit(@, "crashed")]
       ELSE /\ fs' = [fs EXCEPT !.fasta = except_cleanup(@)]
            /\ proc' = IF fs.fasta.exists /\ ~except_cleanup(fs.fasta).exists
                       THEN Orphaned([proc EXCEPT ![p] = Exit(@, "exit1")], p)
                       ELSE [proc EXCEPT ![p] = Exit(@, "exit1")]
    /\ lastOp' = Op("except", p)
    /\ UNCHANGED <<platform, loaded>>

\* an operator interrupt (KeyboardInterrupt is no RequestException): open
\* files are closed with what was written, nothing is cleaned up
Abort(p) ==
    /\ proc[p].pc # "idle"
    /\ IF proc[p].pc = "dump"
       THEN \E k \in 0..(Len(json_dump(config_dict(cache_dir,
                                                   proc[p].file_size_mb))) - 1) :
               fs' = [fs EXCEPT !.config =
                        File(Prefix(json_dump(config_dict(cache_dir,
                                                proc[p].file_size_mb)), k))]
       ELSE fs' = fs
    /\ proc' = [proc EXCEPT ![p] = Exit(@, "aborted")]
    /\ lastOp' = Op("abort", p)
    /\ UNCHANGED <<platform, loaded>>

Steps(p) ==
    \/ RequestOk(p)
    \/ RequestFail(p)
    \/ Open(p)
    \/ StreamChunk(p)
    \/ StreamEnd(p)
    \/ StreamFail(p)
    \/ Stat(p)
    \/ SaveOpen(p)
    \/ Dump(p)
    \/ Except(p)

Download(p) ==
    \/ Call(p)
    \/ Steps(p)

\* ---- load_hla_path as a step --------------------------------------------
Load ==
    /\ loaded' = load_hla_path(fs, platform).res
    /\ fs' = load_hla_path(fs, platform).fs
    /\ lastOp' = Op("load", 0)
    /\ UNCHANGED <<platform, proc>>

Idle == \A p \in Procs : proc[p].pc = "idle"

\* ---- the script run again and again, one run at a time -------------------
Next ==
    \/ \E p \in SeqProcs : Download(p)
    \/ \E p \in SeqProcs : Abort(p)
    \/ Idle /\ Load

Spec == Init /\ [][Next]_vars

\* ---- the same, with the cache directory changed by hand between runs ----
\* the target file is removed
OOBRemoveFasta ==
    /\ Idle
    /\ fs.fasta.exists
    /\ fs' = [fs EXCEPT !.fasta = NoFile]
    /\ lastOp' = Op("oob", 0)
    /\ UNCHANGED <<platform, proc, loaded>>

\* config.json texts json.load accepts and load_hla_path cannot use
EditedConfigs ==
    { <<LBrace, Key("download_url"), Val(URL), RBrace>>,
      <<LBrace, Key("hla_fasta_path"), Val(FloatDiv(PayloadLen, MiB)), RBrace>> }

\* config.json is edited
OOBEditConfig ==
    /\ Idle
    /\ fs.dir
    /\ \E text \in EditedConfigs : fs' = [fs EXCEPT !.config = File(text)]
    /\ lastOp' = Op("oob", 0)
    /\ UNCHANGED <<platform, proc, loaded>>

NextOOB ==
    \/ Next
    \/ OOBRemoveFasta
    \/ OOBEditConfig

SpecOOB == Init /\ [][NextOOB]_vars

\* ---- two runs of the script at once on one cache directory --------------
\* each instance is one run of the script
CallOnce(p) ==
    /\ proc[p].outcome = "none"
    /\ Call(p)

NextConc ==
    \/ \E p \in Procs : CallOnce(p)
    \/ \E p \in Procs : Steps(p)

SpecConc == Init /\ [][NextConc]_vars

\* ---- what config.json says ----------------------------------------------
CfgMissing == ~fs.config.exists
CfgInvalid == fs.config.exists /\ ~json_ok(fs.config.data)
CfgParses == fs.config.exists /\ json_ok(fs.config.data)
CfgHas(name) == CfgParses /\ name \in DOMAIN json_load(fs.config.data)
CfgGet(name) == json_load(fs.config.data)[name]

FastaComplete == fs.fasta.exists /\ fs.fasta.data = Payload

\* C1: under one-at-a-time runs of download_hla_fasta (each succeeding,
\* failing in the transport or interrupted), whenever config.json holds an
\* hla_fasta_path, it names the target file, and the target file exists and
\* holds the whole payload.
C1_ConfigNeverDangling ==
    CfgHas("hla_fasta_path") =>
        /\ CfgGet("hla_fasta_path") = StrOfPath(fasta_file(cache_dir))
        /\ FastaComplete

\* a run has just written the config record
C1_Witness ==
    /\ lastOp.op = "dump"
    /\ CfgHas("hla_fasta_path")
    /\ FastaComplete

\* C2: a run that started with no target file and met a transport failure
\* (in the request or mid-stream) ends with the target file absent,
\* config.json as it was at the call, exit code 1, and one request made.
C2_FailureIsClean ==
    \A p \in Procs :
        (lastOp = Op("except", p) /\ ~proc[p].fs0.fasta.exists) =>
            /\ ~fs.fasta.exists
            /\ fs.config = proc[p].fs0.config
            /\ proc[p].pc = "idle"
            /\ proc[p].outcome = "exit1"
            /\ proc[p].requests = 1

\* the transport failed after a chunk was written, with a config record on disk
C2_Witness ==
    \E p \in Procs :
        /\ lastOp = Op("except", p)
        /\ proc[p].downloaded > 0
        /\ proc[p].fs0.config.exists
        /\ ~proc[p].fs0.fasta.exists

\* C3: every finished run of download_hla_fasta either returned with the
\* target file fully written and the config record created, or ended with a
\* non-zero exit status and no target file left.
C3_TwoOutcomes ==
    \A p \in Procs :
        (lastOp.p = p /\ proc[p].pc = "idle" /\ proc[p].outcome # "none") =>
            \/ /\ proc[p].outcome = "returned"
               /\ FastaComplete
               /\ CfgHas("hla_fasta_path")
            \/ /\ proc[p].outcome \in {"exit1", "aborted", "crashed"}
               /\ ~fs.fasta.exists

\* C4: a load_hla_path that follows a download_hla_fasta which returned path
\* P returns exactly P.
C4_RoundTrip ==
    \A p \in SeqProcs :
        (lastOp.op = "load" /\ proc[p].outcome = "returned") =>
            loaded.ret = proc[p].ret

\* C5: a call of download_hla_fasta that finds the target file returns its
\* path at once: no request, no download step, target file and config.json
\* untouched; and a target file that a call found is only ever removed by
\* hand (a run deletes only the file it created itself).
C5_CachedStaysCached ==
    [][ /\ \A p \in SeqProcs :
              (lastOp'.op \in {"cached", "call"} /\ lastOp'.p = p
                 /\ proc[p].pc = "idle" /\ fs.fasta.exists) =>
                  /\ proc'[p].pc = "idle"
                  /\ proc'[p].requests = 0
                  /\ proc'[p].outcome = "returned"
                  /\ proc'[p].ret = Some(fasta_file(cache_dir))
                  /\ fs'.fasta = fs.fasta
                  /\ fs'.config = fs.config
        /\ (fs.fasta.exists /\ ~fs'.fasta.exists) =>
              \/ lastOp'.op = "oob"
              \/ \E p \in SeqProcs :
                    /\ lastOp' = Op("except", p)
                    /\ ~proc[p].fs0.fasta.exists
      ]_vars

\* a call has just short-circuited on a populated cache directory
C5_Witness ==
    /\ lastOp = Op("cached", 1)
    /\ proc[1].fs0.fasta.exists
    /\ proc[1].requests = 0
    /\ FastaComplete
    /\ CfgHas("hla_fasta_path")

C7_LoadAbsentOnBadConfig ==
    lastOp.op = "load" =>
        /\ ~loaded.fault
        /\ (CfgMissing \/ CfgInvalid \/ (CfgParses /\ ~CfgHas("hla_fasta_path"))) =>
              (loaded.ret = None /\ loaded.msg # "")
        /\ loaded.ret # None =>
              /\ CfgHas("hla_fasta_path")
              /\ loaded.ret = Some(PathOfStr(CfgGet("hla_fasta_path")))

\* load_hla_path has just read a config.json that parses and lacks the key
C7_Witness ==
    /\ lastOp.op = "load"
    /\ CfgParses
    /\ ~CfgHas("hla_fasta_path")
    /\ loaded.ret = None

\* C8: a step of load_hla_path changes neither the cache directory nor its
\* two files, and makes no request.
C8_LoadIsReadOnly ==
    [][ lastOp'.op = "load" =>
            /\ fs' = fs
            /\ \A p \in Procs : proc'[p].requests = proc[p].requests
      ]_vars

\* load_hla_path has run on a cache directory that still does not exist
C8_Witness ==
    /\ lastOp.op = "load"
    /\ ~fs.dir
    /\ loaded.msg = "not set up"

\* C9: with two instances at once, a successful downloading run leaves the
\* target missing or unlike the payload only when the other instance also
\* passed the file-exists check with no target file and made its own
\* request; that state is reachable, the other instance still holding the
\* target open.
C9_CorruptOnlyByRace ==
    \A p \in Procs :
        (proc[p].outcome = "returned" /\ proc[p].requests = 1 /\ ~FastaComplete) =>
            \E q \in Procs \ {p} :
                /\ ~proc[q].fs0.fasta.exists
                /\ proc[q].requests = 1
                /\ proc[q].pc # "request"

\* one instance returned and wrote config.json; the file is not the payload
\* and the other instance is still streaming into it
C9_Witness ==
    \E p \in Procs : \E q \in Procs \ {p} :
        /\ proc[p].outcome = "returned"
        /\ proc[p].requests = 1
        /\ CfgHas("hla_fasta_path")
        /\ fs.fasta.exists
        /\ fs.fasta.data # Payload
        /\ proc[q].pc = "stream"
        /\ proc[q].fd = "open"

\* C10 as stated: every non-empty chunk received shows one progress line,
\* with a content-length header or without.
C10_ProgressPerChunk ==
    \A p \in SeqProcs : Len(proc[p].progress) = proc[p].nchunks

\* C10 as amended: with a content-length header every non-empty chunk shows
\* one percentage line, the last one for the bytes received so far; without
\* the header no progress line is shown.
C10_ProgressOnlyWithLength ==
    \A p \in SeqProcs :
        /\ proc[p].header # None =>
              /\ Len(proc[p].progress) = proc[p].nchunks
              /\ \A i \in 1..Len(proc[p].progress) :
                    proc[p].progress[i].total = proc[p].header[1]
              /\ proc[p].nchunks > 0 =>
                    proc[p].progress[proc[p].nchunks].downloaded = proc[p].downloaded
        /\ proc[p].header = None => proc[p].progress = <<>>

\* chunks were received from a response without content-length
C10_Witness ==
    /\ proc[1].header = None
    /\ proc[1].nchunks > 0
    /\ proc[1].progress = <<>>

====
